---- MODULE Spec2Model ----
(***************************************************************************)
(* A model of NeutronClusteringMCTruth (src/src/clustering/                *)
(* neutron_clustering.py): one analysis session over a loaded set of       *)
(* events, its clustering run, its scores and its capture-ratio summary.   *)
(*                                                                         *)
(* Units.  Coordinates and eps are integers (mm).  Energies are integers   *)
(* in thousandths of a MeV, and sums of energies are exact; every energy   *)
(* of the model is an even number of thousandths, so that no sum falls on  *)
(* a rounding tie, where the float result would depend on the binary       *)
(* representation.  A score returned by sklearn.metrics is the symbolic    *)
(* term of its call (metric name and arguments), a sum of scores is the    *)
(* sequence of its terms in the order Python's sum adds them, and an       *)
(* average is the pair of that sum and its divisor.                        *)
(***************************************************************************)
EXTENDS Integers, Sequences, FiniteSets, TLC

VARIABLES
    edep_positions,         \* per event: sequence of points <<x, y, z>>
    edep_neutron_ids,       \* per event: neutron id of each point
    edep_gamma_ids,         \* per event: gamma id of each point
    edep_energy,            \* per event: energy of each point
    num_events,             \* len(event_ids)
    cluster_predictions,    \* list of per-event label sequences
    cluster_scores,         \* metric name -> list of per-event scores
    avg_cluster_scores,     \* metric name -> average score
    num_captures,           \* per event: number of truth groups
    num_complete_captures,  \* per event: number of complete groups
    capture_ratio,          \* <<>> while the attribute is not set, else <<r>>
    pc,                     \* "new": inside __init__; "ready"; "failed"
    call,                   \* the last operation called and how it ended
    returned,               \* what the last call handed back to its caller
    neutron_clustering,     \* the module's global name of line 742
    scan,                   \* the frame of scan_eps_values
    csv_file,               \* <<>> while not written, else <<rows>>
    exp_fit,                \* the last outcome of sp.optimize.curve_fit
    figure,                 \* <<>>, else <<what fit_depth_exponential drew>>
    first_run,              \* history: the first cluster call that returned
    held_scores             \* <<>>, else <<what a caller of calc_scores kept>>

dataset == <<edep_positions, edep_neutron_ids, edep_gamma_ids, edep_energy,
             num_events>>
capture == <<num_captures, num_complete_captures, capture_ratio>>
scores  == <<cluster_scores, avg_cluster_scores>>
beside  == <<neutron_clustering, scan, csv_file, exp_fit, figure>>
vars    == <<dataset, cluster_predictions, scores, capture, pc, call,
             returned, beside, first_run, held_scores>>

----------------------------------------------------------------------------
(* Bounds of the model. *)

MaxEvents == 2      \* events in a dataset
MaxEdeps == 3       \* energy deposits in a dataset of the capture-ratio check

----------------------------------------------------------------------------
(* Sequences. *)

Range(s) == {s[k] : k \in 1..Len(s)}

RECURSIVE SeqSum(_)
SeqSum(s) == IF s = <<>> THEN 0 ELSE s[1] + SeqSum(Tail(s))

Min(S) == CHOOSE m \in S : \A k \in S : m <= k

\* The elements of a finite set of integers, ascending.
RECURSIVE Sorted(_)
Sorted(S) == IF S = {} THEN <<>> ELSE <<Min(S)>> \o Sorted(S \ {Min(S)})

\* All sequences over S of length 0..n.
SeqsUpto(S, n) == UNION {[1..k -> S] : k \in 0..n}

----------------------------------------------------------------------------
(* calculate_capture_ratio. *)

CaptureEnergy == 610    \* 6.1 MeV, in hundredths

\* np.unique(truth): the distinct ids, sorted.
Unique(truth) == Sorted(Range(truth))

\* np.where(truth == cluster): the matching indices, ascending.
Where(truth, cluster) == Sorted({k \in 1..Len(truth) : truth[k] = cluster})

\* sum(self.edep_energy[ii][indices]): added in index order.
RECURSIVE SumAt(_, _)
SumAt(energy, indices) ==
    IF indices = <<>> THEN 0
    ELSE energy[indices[1]] + SumAt(energy, Tail(indices))

\* A variant of Round2 that cuts the third decimal off.
Round2Truncating(e) == e \div 10

\* round(x, 2) of an energy in thousandths, as hundredths: to the nearest,
\* a tie to the even hundredth.
Round2(e) ==
    LET q == e \div 10
        r == e % 10
    IN  IF r > 5 THEN q + 1
        ELSE IF r < 5 THEN q
        ELSE IF q % 2 = 0 THEN q ELSE q + 1

\* round(x) of the rational num/den (den > 0), num >= 0: to the nearest
\* integer, a tie to the even one.
RoundHalfEven(num, den) ==
    LET q == num \div den
        r == num % den
    IN  IF 2 * r > den THEN q + 1
        ELSE IF 2 * r < den THEN q
        ELSE IF q % 2 = 0 THEN q ELSE q + 1

\* The inner loop over the clusters of one event: counts (total, complete).
RECURSIVE CountClusters(_, _, _, _, _)
CountClusters(clusters, truth, energy, total, complete) ==
    IF clusters = <<>> THEN [total |-> total, complete |-> complete]
    ELSE LET true_energies == SumAt(energy, Where(truth, clusters[1]))
         IN  CountClusters(Tail(clusters), truth, energy, total + 1,
                 IF Round2(true_energies) = CaptureEnergy
                 THEN complete + 1 ELSE complete)

EventCaptures(truth, energy) ==
    CountClusters(Unique(truth), truth, energy, 0, 0)

\* A variant of CaptureCounts with the two counters exchanged.
CaptureCountsSwapped(truths, energies) ==
    [ii \in 1..Len(truths) |->
        [total |-> EventCaptures(truths[ii], energies[ii]).complete,
         complete |-> EventCaptures(truths[ii], energies[ii]).total]]

\* A variant of CaptureCounts that passes over the events without deposits.
CaptureCountsSkippingEmpty(truths, energies) ==
    LET kept == SelectSeq(truths, LAMBDA truth : truth # <<>>)
        at(k) == CHOOSE ii \in 1..Len(truths) :
                     /\ truths[ii] # <<>>
                     /\ Cardinality({jj \in 1..ii : truths[jj] # <<>>}) = k
    IN  [k \in 1..Len(kept) |-> EventCaptures(truths[at(k)], energies[at(k)])]

\* The outer loop: one entry per event of edep_neutron_ids.
CaptureCounts(truths, energies) ==
    [ii \in 1..Len(truths) |-> EventCaptures(truths[ii], energies[ii])]

\* A variant of CaptureRatio: the mean, over the events that have a truth
\* group, of the per-event percentages.
CaptureRatioMeanOfEvents(completes, totals) ==
    LET with == {ii \in 1..Len(totals) : totals[ii] > 0}
        percent(ii) == RoundHalfEven(100 * completes[ii], totals[ii])
    IN  RoundHalfEven(SeqSum([k \in 1..Cardinality(with) |->
                                 percent(Sorted(with)[k])]),
                      Cardinality(with))

\* round((sum(num_complete_captures) / sum(num_captures)) * 100)
CaptureRatio(completes, totals) ==
    RoundHalfEven(100 * SeqSum(completes), SeqSum(totals))

\* What a call hands back: `value` when it returns, nothing when it raises.
Returned(raised, value) == IF raised = "none" THEN value ELSE "nothing"

NoCall == [op |-> "none", alg |-> "", params |-> <<>>, level |-> "",
           raised |-> "none", msg |-> "", item |-> "", legal |-> {}]

\* A variant of AfterInit in which __init__ catches the exception.
AfterInitCatching(raised) == "ready"

\* Where __init__ ends: line 197 calls calculate_capture_ratio outside of
\* any try, so its exception leaves __init__ and no object is handed out.
AfterInit(raised) == IF raised = "none" THEN "ready" ELSE "failed"

\* calculate_capture_ratio, as __init__ calls it: the two lists are always
\* assigned; the division raises ZeroDivisionError when there is no truth
\* group in the whole dataset, and __init__ then fails.
CalculateCaptureRatio ==
    /\ pc = "new"
    /\ LET counts == CaptureCounts(edep_neutron_ids, edep_energy)
           totals == [ii \in 1..Len(counts) |-> counts[ii].total]
           completes == [ii \in 1..Len(counts) |-> counts[ii].complete]
       IN  /\ num_captures' = totals
           /\ num_complete_captures' = completes
           /\ IF SeqSum(totals) = 0
              THEN /\ capture_ratio' = capture_ratio
                   /\ pc' = AfterInit("ZeroDivisionError")
                   /\ call' = [NoCall EXCEPT !.op = "calculate_capture_ratio",
                                             !.raised = "ZeroDivisionError"]
              ELSE /\ capture_ratio' = <<CaptureRatio(completes, totals)>>
                   /\ pc' = AfterInit("none")
                   /\ call' = [NoCall EXCEPT !.op = "calculate_capture_ratio"]
    /\ returned' = Returned(call'.raised, "None")
    /\ UNCHANGED <<dataset, cluster_predictions, scores, beside, first_run,
                   held_scores>>

----------------------------------------------------------------------------
(* cluster. *)

DefaultEps == 100
DefaultMinSamples == 6

\* cluster_params: per algorithm, its parameter names with their defaults,
\* in the order of the dict.  A params mapping is a sequence of
\* <<name, value>> pairs in the order of its dict.
ClusterParams(alg) ==
    CASE alg = "affinity"   -> << <<"damping", "0.5">>, <<"max_iter", "200">> >>
      [] alg = "mean_shift" -> << <<"bandwidth", "None">> >>
      [] alg = "dbscan"     -> << <<"eps", DefaultEps>>,
                                  <<"min_samples", DefaultMinSamples>> >>
      [] alg = "optics"     -> << <<"min_samples", DefaultMinSamples>> >>
      [] alg = "gaussian"   -> << <<"n_components", "1">>,
                                  <<"covariance_type", "full">>,
                                  <<"tol", "1e-3">>, <<"reg_covar", "1e-6">>,
                                  <<"max_iter", "100">> >>

Algorithms == {"affinity", "mean_shift", "dbscan", "optics", "gaussian"}

Keys(params) == {params[k][1] : k \in 1..Len(params)}

HasKey(params, key) == key \in Keys(params)

Get(params, key) ==
    params[CHOOSE k \in 1..Len(params) : params[k][1] = key][2]

\* A variant of Unrecognized that looks at the first item only.
UnrecognizedFirstOnly(params, alg) ==
    IF params # <<>> /\ params[1][1] \notin Keys(ClusterParams(alg))
    THEN <<params[1]>> ELSE <<>>

\* The items of params, in order, that are not parameters of alg.
Unrecognized(params, alg) ==
    SelectSeq(params, LAMBDA item : item[1] \notin Keys(ClusterParams(alg)))

Dist2(p, q) ==
    (p[1] - q[1]) * (p[1] - q[1]) + (p[2] - q[2]) * (p[2] - q[2])
        + (p[3] - q[3]) * (p[3] - q[3])

\* sklearn's DBSCAN(**params): eps defaults to 0.5 and min_samples to 5
\* when params does not give them.  eps is the rational num/den.
DbscanEps(params) ==
    IF HasKey(params, "eps") THEN [num |-> Get(params, "eps"), den |-> 1]
    ELSE [num |-> 1, den |-> 2]

DbscanMinSamples(params) ==
    IF HasKey(params, "min_samples") THEN Get(params, "min_samples") ELSE 5

\* The points within eps of point i, itself included.
Neighbors(pos, eps, i) ==
    {j \in 1..Len(pos) :
        eps.den * eps.den * Dist2(pos[i], pos[j]) <= eps.num * eps.num}

IsCore(pos, eps, min_samples, i) ==
    Cardinality(Neighbors(pos, eps, i)) >= min_samples

\* The still unlabelled points a cluster grown from the points S reaches:
\* only its core points pass it on to their neighbours.
RECURSIVE Expand(_, _, _, _, _)
Expand(pos, eps, min_samples, labels, S) ==
    LET more == {j \in 1..Len(pos) :
                    /\ labels[j] = -1
                    /\ \E i \in S : /\ IsCore(pos, eps, min_samples, i)
                                    /\ j \in Neighbors(pos, eps, i)}
    IN  IF more \subseteq S THEN S
        ELSE Expand(pos, eps, min_samples, labels, S \cup more)

\* DBSCAN's labelling loop: each unlabelled core point, in index order,
\* starts the next cluster; a point no cluster reaches keeps -1 (noise).
RECURSIVE DbscanLoop(_, _, _, _, _, _)
DbscanLoop(pos, eps, min_samples, i, labels, label_num) ==
    IF i > Len(pos) THEN labels
    ELSE IF labels[i] # -1 \/ ~IsCore(pos, eps, min_samples, i)
    THEN DbscanLoop(pos, eps, min_samples, i + 1, labels, label_num)
    ELSE LET S == Expand(pos, eps, min_samples, labels, {i})
         IN  DbscanLoop(pos, eps, min_samples, i + 1,
                 [k \in 1..Len(pos) |-> IF k \in S THEN label_num
                                        ELSE labels[k]],
                 label_num + 1)

DbscanLabels(pos, params) ==
    DbscanLoop(pos, DbscanEps(params), DbscanMinSamples(params), 1,
               [k \in 1..Len(pos) |-> -1], 0)

\* The labellings the model lets affinity propagation, mean shift and
\* OPTICS return for n points: one cluster, or the first point apart from
\* the rest.
Labellings == {"one", "apart"}

Labelling(pick, n) ==
    [k \in 1..n |-> IF pick = "apart" /\ k > 1 THEN 1 ELSE 0]

\* clusterer.fit(pos) raises ValueError: every estimator on an event with
\* no point, OPTICS also on an event with fewer points than min_samples.
FitRaises(alg, params, pos) ==
    \/ Len(pos) = 0
    \/ /\ alg = "optics"
       /\ Len(pos) < (IF HasKey(params, "min_samples")
                      THEN Get(params, "min_samples") ELSE 5)

\* A variant of FitLabels that keeps the labels of the clustered points only.
FitLabelsWithoutNoise(alg, params, pos, pick) ==
    SelectSeq(IF alg = "dbscan" THEN DbscanLabels(pos, params)
              ELSE Labelling(pick, Len(pos)),
              LAMBDA label : label # -1)

\* clusterer.labels_ after a fit that did not raise.
FitLabels(alg, params, pos, pick) ==
    IF alg = "dbscan" THEN DbscanLabels(pos, params)
    ELSE Labelling(pick, Len(pos))

\* What the per-event choices of a black-box estimator range over.
Picks(alg) == IF alg = "dbscan" THEN {"one"} ELSE Labellings

\* The first event whose fit raises, or 0.
FirstRaising(alg, params, positions) ==
    IF \E ii \in 1..Len(positions) : FitRaises(alg, params, positions[ii])
    THEN Min({ii \in 1..Len(positions) : FitRaises(alg, params, positions[ii])})
    ELSE 0

\* A variant of RunClusterer that appends to the previous collection.
RunClustererAppending(previous, alg, params, positions, picks) ==
    LET bad == FirstRaising(alg, params, positions)
        upto == IF bad = 0 THEN Len(positions) ELSE bad - 1
    IN  previous \o
        [ii \in 1..upto |-> FitLabels(alg, params, positions[ii], picks[ii])]

\* A variant of RunClusterer whose estimator numbers its clusters on from
\* the number of entries the collection held before.
RunClustererNumberingOn(previous, alg, params, positions, picks) ==
    LET bad == FirstRaising(alg, params, positions)
        upto == IF bad = 0 THEN Len(positions) ELSE bad - 1
        labels(ii) == FitLabels(alg, params, positions[ii], picks[ii])
    IN  [ii \in 1..upto |->
            [k \in 1..Len(labels(ii)) |->
                IF labels(ii)[k] = -1 THEN -1
                ELSE labels(ii)[k] + Len(previous)]]

\* A variant of RunClusterer that stores the labels in the reverse of the
\* order in which the events were fitted.
RunClustererReversed(previous, alg, params, positions, picks) ==
    LET bad == FirstRaising(alg, params, positions)
        upto == IF bad = 0 THEN Len(positions) ELSE bad - 1
    IN  [ii \in 1..upto |->
            FitLabels(alg, params, positions[upto + 1 - ii],
                      picks[upto + 1 - ii])]

\* self.cluster_predictions = [] and then the loop over edep_positions,
\* which appends labels_ until a fit raises.
RunClusterer(previous, alg, params, positions, picks) ==
    LET bad == FirstRaising(alg, params, positions)
        upto == IF bad = 0 THEN Len(positions) ELSE bad - 1
    IN  [ii \in 1..upto |-> FitLabels(alg, params, positions[ii], picks[ii])]

\* A variant of ClusterLeaves in which cluster empties the capture lists.
ClusterLeavesEmptyingCaptures ==
    /\ num_captures' = <<>>
    /\ num_complete_captures' = <<>>
    /\ UNCHANGED <<dataset, scores, capture_ratio, pc, beside, held_scores>>

\* What cluster leaves alone: it assigns self.cluster_predictions and no
\* other attribute.
ClusterLeaves ==
    UNCHANGED <<dataset, scores, capture, pc, beside, held_scores>>

\* cluster(level, alg, params): an unknown level or algorithm is replaced
\* (with a warning), an unknown parameter raises ValueError, the gaussian
\* estimator is looked up in sklearn.cluster, which has none
\* (AttributeError), and the estimator is then fitted event by event.
Cluster(level, alg, params) ==
    /\ pc = "ready"
    /\ LET known == alg \in Algorithms
           alg_used == IF known THEN alg ELSE "dbscan"
           params_used == IF known THEN params ELSE ClusterParams("dbscan")
           unknown == Unrecognized(params_used, alg_used)
           entry == [NoCall EXCEPT !.op = "cluster", !.alg = alg,
                                   !.params = params]
       IN  IF unknown # <<>>
           THEN /\ call' = [entry EXCEPT !.raised = "ValueError",
                                         !.msg = "Unrecognized parameter",
                                         !.item = unknown[1][1],
                                         !.legal =
                                             Keys(ClusterParams(alg_used))]
                /\ UNCHANGED cluster_predictions
           ELSE IF alg_used = "gaussian"
           THEN /\ call' = [entry EXCEPT !.raised = "AttributeError"]
                /\ UNCHANGED cluster_predictions
           ELSE \E picks \in [1..Len(edep_positions) -> Picks(alg_used)] :
                /\ cluster_predictions' =
                       RunClusterer(cluster_predictions, alg_used,
                                    params_used, edep_positions, picks)
                /\ call' = [entry EXCEPT
                       !.raised =
                           IF FirstRaising(alg_used, params_used,
                                           edep_positions) = 0
                           THEN "none" ELSE "ValueError",
                       !.msg =
                           IF FirstRaising(alg_used, params_used,
                                           edep_positions) = 0
                           THEN "" ELSE "fit"]
    /\ returned' = Returned(call'.raised, "None")
    /\ ClusterLeaves

----------------------------------------------------------------------------
(* calc_scores. *)

MetricNames == <<"homogeneity", "completeness", "v-measure",
                 "adjusted_rand_index", "adjusted_mutual_info", "silhouette">>

Metrics == Range(MetricNames)

Levels == {"neutron", "gamma"}

\* The value of metrics.<metric>_score(x, y): the term of the call.
Score(metric, x, y) == [metric |-> metric, args |-> <<x, y>>]

\* metrics.silhouette_score raises ValueError unless the number of distinct
\* labels (the noise label counts as one) is in 2 .. n_samples - 1.
SilhouetteRaises(pred) ==
    LET n_labels == Cardinality(Range(pred))
    IN  ~(2 <= n_labels /\ n_labels <= Len(pred) - 1)

\* A variant of LevelUsed that falls back to 'gamma'.
LevelUsedGamma(level) == IF level \in Levels THEN level ELSE "gamma"

\* if level not in ['neutron', 'gamma']: level = 'neutron'
LevelUsed(level) == IF level \in Levels THEN level ELSE "neutron"

\* self.cluster_predictions == []
NoPredictions(predictions) == predictions = <<>>

\* A variant of CountMismatch that accepts any count.
CountMismatchIgnored(predictions, n) == FALSE

\* len(self.cluster_predictions) != self.num_events
CountMismatch(predictions, n) == Len(predictions) # n

\* The truth labels calc_scores compares with.
TruthLabels(level) ==
    IF level = "neutron" THEN edep_neutron_ids ELSE edep_gamma_ids

\* The first prediction on which the scoring loop raises, or 0.
FirstUnscored(predictions) ==
    IF \E ii \in 1..Len(predictions) : SilhouetteRaises(predictions[ii])
    THEN Min({ii \in 1..Len(predictions) : SilhouetteRaises(predictions[ii])})
    ELSE 0

\* One metric's list after the scoring loop went through `upto` events.
ScoreList(metric, labels, predictions, positions, upto) ==
    [ii \in 1..upto |->
        IF metric = "silhouette"
        THEN Score(metric, positions[ii], predictions[ii])
        ELSE Score(metric, labels[ii], predictions[ii])]

\* The lists the scoring loop leaves, appended to `cleared`: when the
\* silhouette of event `bad` raises, the five other metrics of that event
\* are in already.
ScoreLists(cleared, labels, predictions, positions) ==
    LET bad == FirstUnscored(predictions)
    IN  [m \in Metrics |->
            cleared[m] \o
            ScoreList(m, labels, predictions, positions,
                      IF bad = 0 THEN Len(predictions)
                      ELSE IF m = "silhouette" THEN bad - 1 ELSE bad)]

\* A variant of ClearScores that keeps the lists.
ClearScoresKeeping(lists) == lists

\* for item in self.cluster_scores.keys(): self.cluster_scores[item] = []
ClearScores(lists) == [m \in Metrics |-> <<>>]

\* sum(self.cluster_scores[item]) / len(labels)
Average(list, labels) == [sum |-> list, n |-> Len(labels)]

\* calc_scores(level): an unknown level is replaced by 'neutron' (with a
\* warning); no prediction, or not one per event, raises ValueError; the
\* lists are cleared and filled event by event, and the averages are taken
\* once the loop is through.
CalcScores(level) ==
    /\ pc = "ready"
    /\ LET level_used == LevelUsed(level)
           entry == [NoCall EXCEPT !.op = "calc_scores", !.level = level]
           labels == TruthLabels(level_used)
           lists == ScoreLists(ClearScores(cluster_scores), labels,
                               cluster_predictions, edep_positions)
       IN  IF NoPredictions(cluster_predictions)
           THEN /\ call' = [entry EXCEPT !.raised = "ValueError",
                                         !.msg = "No predictions"]
                /\ UNCHANGED scores
           ELSE IF CountMismatch(cluster_predictions, num_events)
           THEN /\ call' = [entry EXCEPT !.raised = "ValueError",
                                         !.msg = "Only predictions"]
                /\ UNCHANGED scores
           ELSE IF FirstUnscored(cluster_predictions) # 0
           THEN /\ call' = [entry EXCEPT !.raised = "ValueError",
                                         !.msg = "silhouette"]
                /\ cluster_scores' = lists
                /\ UNCHANGED avg_cluster_scores
           ELSE /\ call' = entry
                /\ cluster_scores' = lists
                /\ avg_cluster_scores' =
                       [m \in Metrics |-> Average(lists[m], labels)]
    /\ returned' = Returned(call'.raised, "avg_cluster_scores")
    /\ UNCHANGED <<dataset, cluster_predictions, capture, pc, beside,
                   first_run>>

----------------------------------------------------------------------------
(* scan_eps_values.  The method calls cluster and calc_scores on the        *)
(* module's global name neutron_clustering (lines 636 and 641), not on      *)
(* self: the name is bound by the script of line 742 only, to the object    *)
(* the script built, and is unbound in a process that imports the module.   *)

\* The fields of a session object that cluster and calc_scores use.
Session(positions, neutron_ids, n, predictions, lists, averages) ==
    [edep_positions |-> positions, edep_neutron_ids |-> neutron_ids,
     num_events |-> n, cluster_predictions |-> predictions,
     cluster_scores |-> lists, avg_cluster_scores |-> averages]

Self ==
    Session(edep_positions, edep_neutron_ids, num_events,
            cluster_predictions, cluster_scores, avg_cluster_scores)

\* The object the global name stands for.
Driven ==
    IF neutron_clustering.binding = "self" THEN Self
    ELSE neutron_clustering.session

ScanMinSamples == 6

\* A variant of ScanParams that clusters with the value after eps.
ScanParamsNextValue(eps) ==
    << <<"eps", eps + 1>>, <<"min_samples", ScanMinSamples>> >>

\* params = {'eps': eps, 'min_samples': 6}
ScanParams(eps) == << <<"eps", eps>>, <<"min_samples", ScanMinSamples>> >>

\* The first row of the table.
Header == <<"eps", "homogeneity", "completeness", "v-measure",
            "adjusted_rand_index", "adjusted_mutual_info", "silhouette">>

\* int((eps_range[1] - eps_range[0]) / eps_step), eps_step > 0: the
\* quotient cut towards zero.
NumSteps(eps_range, eps_step) ==
    LET width == eps_range[2] - eps_range[1]
    IN  IF width >= 0 THEN width \div eps_step
        ELSE 0 - ((0 - width) \div eps_step)

\* [eps_range[0] + ii*eps_step for ii in range(num_steps)]
EpsValues(eps_range, eps_step) ==
    [k \in 1..NumSteps(eps_range, eps_step) |->
        eps_range[1] + (k - 1) * eps_step]

\* neutron_clustering.cluster(alg='dbscan', params=...) on the session d.
ClusterOn(d, params) ==
    LET picks == [ii \in 1..Len(d.edep_positions) |-> "one"]
        bad == FirstRaising("dbscan", params, d.edep_positions)
    IN  [session |->
             [d EXCEPT !.cluster_predictions =
                 RunClusterer(d.cluster_predictions, "dbscan", params,
                              d.edep_positions, picks)],
         raised |-> IF bad = 0 THEN "none" ELSE "ValueError",
         msg |-> IF bad = 0 THEN "" ELSE "fit"]

\* neutron_clustering.calc_scores() on the session d (level 'neutron').
CalcScoresOn(d) ==
    LET labels == d.edep_neutron_ids
        lists == ScoreLists(ClearScores(d.cluster_scores), labels,
                            d.cluster_predictions, d.edep_positions)
    IN  IF NoPredictions(d.cluster_predictions)
        THEN [session |-> d, raised |-> "ValueError",
              msg |-> "No predictions"]
        ELSE IF CountMismatch(d.cluster_predictions, d.num_events)
        THEN [session |-> d, raised |-> "ValueError",
              msg |-> "Only predictions"]
        ELSE IF FirstUnscored(d.cluster_predictions) # 0
        THEN [session |-> [d EXCEPT !.cluster_scores = lists],
              raised |-> "ValueError", msg |-> "silhouette"]
        ELSE [session |->
                  [d EXCEPT !.cluster_scores = lists,
                            !.avg_cluster_scores =
                                [m \in Metrics |-> Average(lists[m], labels)]],
              raised |-> "none", msg |-> ""]

\* The body of the loop up to the row: cluster, then calc_scores.
ScanIteration(d, eps) ==
    LET c == ClusterOn(d, ScanParams(eps))
    IN  IF c.raised # "none" THEN c ELSE CalcScoresOn(c.session)

\* A variant of ScoreRow that leaves the eps value out.
ScoreRowWithoutEps(eps, avg_scores) ==
    [k \in 1..Len(MetricNames) |-> avg_scores[MetricNames[k]]]

\* score_list = [eps], then avg_scores[item] for each key of the mapping,
\* in the order of its keys.
ScoreRow(eps, avg_scores) ==
    <<eps>> \o [k \in 1..Len(MetricNames) |-> avg_scores[MetricNames[k]]]

\* A variant of ScanPc that goes on to the next value when one raised.
ScanPcSwallowing(raised, last) == IF last THEN "done" ELSE "loop"

\* Where the loop stands after an iteration: an exception leaves the
\* method; after the last value the table is written.
ScanPc(raised, last) ==
    IF raised # "none" THEN "failed" ELSE IF last THEN "done" ELSE "loop"

NoScan == [pc |-> "idle", eps_range |-> <<0, 0>>, eps_step |-> 1,
           eps_values |-> <<>>, done |-> 0, scores |-> <<>>]

\* scan_eps_values up to its loop: the values and the header; the log line
\* of line 633 reads eps_values[0] and raises IndexError when there is no
\* value.
ScanEpsValues(eps_range, eps_step) ==
    /\ pc = "ready"
    /\ scan.pc # "loop"
    /\ LET eps_values == EpsValues(eps_range, eps_step)
           entry == [NoCall EXCEPT !.op = "scan_eps_values"]
       IN  /\ scan' = [pc |-> IF eps_values = <<>> THEN "failed" ELSE "loop",
                       eps_range |-> eps_range, eps_step |-> eps_step,
                       eps_values |-> eps_values, done |-> 0,
                       scores |-> <<Header>>]
           /\ call' = IF eps_values = <<>>
                      THEN [entry EXCEPT !.raised = "IndexError"]
                      ELSE entry
    /\ returned' = "nothing"
    /\ UNCHANGED <<dataset, cluster_predictions, scores, capture, pc,
                   neutron_clustering, csv_file, exp_fit, figure, first_run,
                   held_scores>>

\* One turn of the loop of scan_eps_values, and after the last one the
\* writing of the table: looking the global name up raises NameError when
\* it is unbound; an exception of cluster or calc_scores leaves the method.
ScanLoop ==
    /\ scan.pc = "loop"
    /\ LET eps == scan.eps_values[scan.done + 1]
           last == scan.done + 1 = Len(scan.eps_values)
           entry == [NoCall EXCEPT !.op = "scan_eps_values"]
       IN  IF neutron_clustering.binding = "unbound"
           THEN /\ scan' = [scan EXCEPT !.pc = "failed"]
                /\ call' = [entry EXCEPT !.raised = "NameError"]
                /\ UNCHANGED <<cluster_predictions, scores,
                               neutron_clustering, csv_file>>
           ELSE LET r == ScanIteration(Driven, eps)
                    next_pc == ScanPc(r.raised, last)
                    table == IF next_pc = "failed" THEN scan.scores
                             ELSE Append(scan.scores,
                                      ScoreRow(eps,
                                          r.session.avg_cluster_scores))
                IN  /\ IF neutron_clustering.binding = "self"
                       THEN /\ cluster_predictions' =
                                   r.session.cluster_predictions
                            /\ cluster_scores' = r.session.cluster_scores
                            /\ avg_cluster_scores' =
                                   r.session.avg_cluster_scores
                            /\ UNCHANGED neutron_clustering
                       ELSE /\ neutron_clustering' =
                                   [neutron_clustering EXCEPT
                                       !.session = r.session]
                            /\ UNCHANGED <<cluster_predictions, scores>>
                    /\ scan' = [scan EXCEPT !.pc = next_pc,
                                            !.done = Len(table) - 1,
                                            !.scores = table]
                    /\ csv_file' = IF next_pc = "done" THEN <<table>>
                                   ELSE csv_file
                    /\ call' = [entry EXCEPT !.raised = r.raised,
                                             !.msg = r.msg]
    /\ returned' = IF scan'.pc = "done" THEN "None" ELSE "nothing"
    /\ UNCHANGED <<dataset, capture, pc, exp_fit, figure, first_run,
                   held_scores>>

----------------------------------------------------------------------------
(* fit_depth_exponential.  A density, a cumulative value, a bin edge and a  *)
(* mid point are the rationals num/den.                                     *)

RECURSIVE Flatten(_)
Flatten(seqs) == IF seqs = <<>> THEN <<>> ELSE seqs[1] \o Flatten(Tail(seqs))

Max(S) == CHOOSE m \in S : \A k \in S : m >= k

Abs(n) == IF n < 0 THEN 0 - n ELSE n

\* y_pos = np.concatenate([yi for yi in self.y]).flatten()
YPos(positions) ==
    Flatten([ii \in 1..Len(positions) |->
                [k \in 1..Len(positions[ii]) |-> positions[ii][k][2]]])

\* depth = np.abs(y_max - y_pos)
Depth(y_pos) ==
    [k \in 1..Len(y_pos) |-> Abs(Max(Range(y_pos)) - y_pos[k])]

\* A variant of BinOf whose last bin is half-open like the others.
BinOfHalfOpen(v, depth, num_bins) ==
    LET lo == Min(Range(depth))
        hi == Max(Range(depth))
    IN  IF hi = lo THEN (num_bins \div 2) + 1
        ELSE (((v - lo) * num_bins) \div (hi - lo)) + 1

\* The bin np.histogram(depth, bins=num_bins) counts the value v in, from
\* 1: num_bins equal bins from the smallest to the largest depth, the last
\* one closed; when all depths are equal, bins over [v - 0.5, v + 0.5].
BinOf(v, depth, num_bins) ==
    LET lo == Min(Range(depth))
        hi == Max(Range(depth))
    IN  IF hi = lo THEN (num_bins \div 2) + 1
        ELSE IF v = hi THEN num_bins
        ELSE (((v - lo) * num_bins) \div (hi - lo)) + 1

\* y_hist of np.histogram: the count of each bin.
Histogram(depth, num_bins) ==
    [b \in 1..num_bins |->
        Cardinality({k \in 1..Len(depth) : BinOf(depth[k], depth, num_bins) = b})]

\* y_edges of np.histogram, edge k from 0, over the denominator 2*num_bins.
Edge(k, depth, num_bins) ==
    LET lo == Min(Range(depth))
        hi == Max(Range(depth))
    IN  IF hi = lo
        THEN [num |-> 2 * num_bins * lo - num_bins + 2 * k,
              den |-> 2 * num_bins]
        ELSE [num |-> 2 * num_bins * lo + 2 * k * (hi - lo),
              den |-> 2 * num_bins]

\* y_hist.astype(float) / hist_sum
Density(y_hist) ==
    [b \in 1..Len(y_hist) |-> [num |-> y_hist[b], den |-> SeqSum(y_hist)]]

\* cum_hist: each density added to the last cumulative value.
CumHist(y_hist) ==
    [b \in 1..Len(y_hist) |->
        [num |-> SeqSum(SubSeq(y_hist, 1, b)), den |-> SeqSum(y_hist)]]

\* y_edges[ii] + (y_edges[ii+1] - y_edges[ii]) / 2.
MidPoints(depth, num_bins) ==
    [b \in 1..num_bins |->
        [num |-> (Edge(b - 1, depth, num_bins).num
                      + Edge(b, depth, num_bins).num) \div 2,
         den |-> 2 * num_bins]]

\* What sp.optimize.curve_fit may do with num_bins points and the two
\* parameters of the lambda: fewer points than parameters is an improper
\* input (TypeError); otherwise the optimizer converges or gives up
\* (RuntimeError).
CurveFitOutcomes(num_bins) ==
    IF num_bins < 2 THEN {"improper"} ELSE {"converged", "diverged"}

\* A variant of FitRaised that goes on when the optimizer gave up.
FitRaisedSwallowing(status) ==
    IF status = "improper" THEN "TypeError" ELSE "none"

\* The exception fit_depth_exponential ends with: curve_fit's own, which
\* no handler catches.
FitRaised(status) ==
    CASE status = "improper" -> "TypeError"
      [] status = "diverged" -> "RuntimeError"
      [] OTHER -> "none"

NoFit == [status |-> "none", popt |-> <<>>]

\* fit_depth_exponential(num_bins): the histogram of the depths, its
\* density and cumulative curve, the fit, then the figure.  The method has
\* no return statement and assigns no attribute.
FitDepthExponential(num_bins) ==
    /\ pc = "ready"
    /\ scan.pc # "loop"
    /\ LET entry == [NoCall EXCEPT !.op = "fit_depth_exponential"]
           y_pos == YPos(edep_positions)
       IN  IF y_pos = <<>>
           THEN /\ call' = [entry EXCEPT !.raised = "ValueError",
                                         !.msg = "zero-size array"]
                /\ exp_fit' = NoFit
                /\ UNCHANGED figure
           ELSE LET depth == Depth(y_pos)
                    y_hist == Density(Histogram(depth, num_bins))
                    cum_hist == CumHist(Histogram(depth, num_bins))
                    mid_points == MidPoints(depth, num_bins)
                IN  \E status \in CurveFitOutcomes(num_bins) :
                        /\ exp_fit' =
                               [status |-> status,
                                popt |-> IF status = "converged"
                                         THEN <<mid_points, y_hist>>
                                         ELSE <<>>]
                        /\ call' = [entry EXCEPT
                                        !.raised = FitRaised(status)]
                        /\ figure' =
                               IF FitRaised(status) = "none"
                               THEN <<[mid_points |-> mid_points,
                                       y_hist |-> y_hist,
                                       cum_hist |-> cum_hist,
                                       exp_fit |-> exp_fit'.popt]>>
                               ELSE figure
    /\ returned' = Returned(call'.raised, "None")
    /\ UNCHANGED <<dataset, cluster_predictions, scores, capture, pc,
                   neutron_clustering, scan, csv_file, first_run,
                   held_scores>>

----------------------------------------------------------------------------
(* The state __init__ builds before it calls calculate_capture_ratio. *)

\* 0. : the empty sum over 1.
ZeroAverage == [sum |-> <<>>, n |-> 1]

InitSession(events) ==
    /\ edep_positions = [ii \in 1..Len(events) |-> events[ii].pos]
    /\ edep_neutron_ids = [ii \in 1..Len(events) |-> events[ii].nid]
    /\ edep_gamma_ids = [ii \in 1..Len(events) |-> events[ii].gid]
    /\ edep_energy = [ii \in 1..Len(events) |-> events[ii].en]
    /\ num_events = Len(events)
    /\ cluster_predictions = <<>>
    /\ cluster_scores = [m \in Metrics |-> <<>>]
    /\ avg_cluster_scores = [m \in Metrics |-> ZeroAverage]
    /\ num_captures = <<>>
    /\ num_complete_captures = <<>>
    /\ capture_ratio = <<>>
    /\ pc = "new"
    /\ call = NoCall
    /\ returned = "nothing"
    /\ scan = NoScan
    /\ csv_file = <<>>
    /\ exp_fit = NoFit
    /\ figure = <<>>
    /\ first_run = <<>>
    /\ held_scores = <<>>

\* The object __init__ builds from `events`, as cluster and calc_scores
\* see it.
NewSession(events) ==
    Session([ii \in 1..Len(events) |-> events[ii].pos],
            [ii \in 1..Len(events) |-> events[ii].nid],
            Len(events), <<>>, [m \in Metrics |-> <<>>],
            [m \in Metrics |-> ZeroAverage])

\* The global name in a process that imported the module: not bound.
Unbound == [binding |-> "unbound", session |-> NewSession(<<>>)]

\* The global name in the script of line 742, when self is the object the
\* script built.
BoundToSelf == [binding |-> "self", session |-> NewSession(<<>>)]

\* The global name when it stands for another object than self.
BoundTo(events) == [binding |-> "other", session |-> NewSession(events)]

----------------------------------------------------------------------------
(* The capture-ratio computation over every small dataset. *)

NeutronIds == {3, 7}
Energies == {3048, 3056, 6098}

\* The events of `sizes` points each, cut in order from the flat sequences
\* of ids and energies; every point at the origin (positions do not matter
\* to the capture ratio).
CaptureEvents(sizes, ids, ens) ==
    LET offset(ii) == SeqSum(SubSeq(sizes, 1, ii - 1))
    IN  [ii \in 1..Len(sizes) |->
            [pos |-> [k \in 1..sizes[ii] |-> <<0, 0, 0>>],
             nid |-> [k \in 1..sizes[ii] |-> ids[offset(ii) + k]],
             gid |-> [k \in 1..sizes[ii] |-> ids[offset(ii) + k]],
             en  |-> [k \in 1..sizes[ii] |-> ens[offset(ii) + k]]]]

InitCapture ==
    \E sizes \in SeqsUpto(0..MaxEdeps, MaxEvents) :
        /\ SeqSum(sizes) <= MaxEdeps
        /\ \E ids \in [1..SeqSum(sizes) -> NeutronIds],
              ens \in [1..SeqSum(sizes) -> Energies] :
               /\ InitSession(CaptureEvents(sizes, ids, ens))
               /\ neutron_clustering = Unbound

NextCapture == CalculateCaptureRatio

SpecCapture == InitCapture /\ [][NextCapture]_vars

----------------------------------------------------------------------------
(* A session: construction, then any sequence of cluster and calc_scores. *)

Event(pos, nid, gid, en) == [pos |-> pos, nid |-> nid, gid |-> gid, en |-> en]

\* The events datasets are made of: one without deposits, one with a close
\* pair and a far deposit, one whose first and third deposits are close and
\* share a neutron but not a gamma.
EventPool ==
    { Event(<<>>, <<>>, <<>>, <<>>),
      Event(<< <<0, 0, 0>>, <<0, 1, 0>>, <<0, 0, 1000>> >>,
            <<1, 1, 2>>, <<65, 66, 67>>, <<3048, 3056, 6098>>),
      Event(<< <<0, 0, 0>>, <<500, 0, 0>>, <<0, 0, 1>> >>,
            <<7, 3, 7>>, <<70, 30, 71>>, <<3056, 3048, 3056>>) }

\* The default of cluster's params argument, which a call without params
\* gets whatever alg is.
ParamsDefault ==
    << <<"eps", DefaultEps>>, <<"min_samples", DefaultMinSamples>> >>

AlgorithmInputs == Algorithms \cup {"kmeans"}

LevelInputs == Levels \cup {"electron"}

ParamInputs ==
    { <<>>,
      << <<"eps", 2>>, <<"min_samples", 1>> >>,
      ParamsDefault,
      << <<"min_samples", 2>> >>,
      << <<"min_samples", 2>>, <<"eps", 2>> >>,
      << <<"eps", 2>>, <<"bogus", "1">>, <<"bandwidth", "None">> >>,
      << <<"bandwidth", "None">> >>,
      << <<"damping", "0.5">>, <<"max_iter", "200">> >> }

Init ==
    \E events \in SeqsUpto(EventPool, MaxEvents) :
        /\ InitSession(events)
        /\ neutron_clustering = Unbound

\* Every algorithm name with every params mapping.
NextCluster ==
    \/ CalculateCaptureRatio
    \/ \E level \in {"neutron", "electron"}, alg \in AlgorithmInputs,
          params \in ParamInputs :
              Cluster(level, alg, params) /\ UNCHANGED first_run

SpecCluster == Init /\ [][NextCluster]_vars

\* The cluster calls of a session that also scores: DBSCAN with a small eps
\* (with and without noise) and with the defaults, an unknown name, and a
\* call that raises.
SessionCalls ==
    { <<"dbscan", << <<"eps", 2>>, <<"min_samples", 1>> >> >>,
      <<"dbscan", << <<"min_samples", 2>>, <<"eps", 2>> >> >>,
      <<"dbscan", ClusterParams("dbscan")>>,
      <<"kmeans", << <<"eps", 2>>, <<"min_samples", 1>> >> >>,
      <<"affinity", ClusterParams("dbscan")>> }

Next ==
    \/ CalculateCaptureRatio
    \/ \E c \in SessionCalls :
           Cluster("neutron", c[1], c[2]) /\ UNCHANGED first_run
    \/ \E level \in LevelInputs :
           CalcScores(level) /\ UNCHANGED held_scores

Spec == Init /\ [][Next]_vars

----------------------------------------------------------------------------
(* A session that remembers its first cluster call that returned. *)

RecordRun ==
    first_run' =
        IF first_run = <<>> /\ call'.raised = "none"
        THEN <<[alg |-> call'.alg, params |-> call'.params,
                predictions |-> cluster_predictions']>>
        ELSE first_run

NextRerun ==
    \/ CalculateCaptureRatio
    \/ \E c \in SessionCalls : Cluster("neutron", c[1], c[2]) /\ RecordRun
    \/ \E level \in LevelInputs :
           CalcScores(level) /\ UNCHANGED held_scores

SpecRerun == Init /\ [][NextRerun]_vars

----------------------------------------------------------------------------
(* A session scored at the neutron level, whose caller keeps the mapping the *)
(* first calc_scores call that returned handed back, with the values it     *)
(* read from it then.                                                       *)

\* What is read through a returned reference: line 374 returns
\* self.avg_cluster_scores, the dict __init__ bound on line 174, which no
\* line rebinds, so that the reference reads `attribute`, what the session's
\* avg_cluster_scores holds at the time of reading.
Deref(reference, attribute) ==
    IF reference = "avg_cluster_scores" THEN attribute ELSE reference

HoldScores ==
    held_scores' =
        IF held_scores = <<>> /\ call'.raised = "none"
        THEN <<[mapping |-> returned', read |-> Deref(returned', avg_cluster_scores')]>>
        ELSE held_scores

NextKeep ==
    \/ CalculateCaptureRatio
    \/ \E c \in SessionCalls :
           Cluster("neutron", c[1], c[2]) /\ UNCHANGED first_run
    \/ CalcScores("neutron") /\ HoldScores

SpecKeep == Init /\ [][NextKeep]_vars

----------------------------------------------------------------------------
(* Scans: a session over events large enough for DBSCAN with min_samples =  *)
(* 6 to find a cluster, and what the global name stands for.                *)

\* Six deposits: one at the origin and five at distance 1 along the axes.
Star == << <<0, 0, 0>>, <<1, 0, 0>>, <<-1, 0, 0>>, <<0, 1, 0>>,
           <<0, -1, 0>>, <<0, 0, 1>> >>

\* The events of a scanned dataset: one without deposits; the star and a
\* deposit at 4 from its nearest point, which eps >= 4 joins to the star,
\* leaving one label; the star, a deposit at 2 from it, which eps >= 2
\* joins to it, and a far deposit, noise for every eps.
ScanPool ==
    { Event(<<>>, <<>>, <<>>, <<>>),
      Event(Star \o << <<5, 0, 0>> >>,
            <<1, 1, 1, 1, 1, 1, 2>>, <<1, 2, 3, 4, 5, 6, 7>>,
            <<3048, 3056, 3048, 3056, 3048, 3056, 6098>>),
      Event(Star \o << <<3, 0, 0>>, <<1000, 0, 0>> >>,
            <<1, 1, 1, 1, 1, 1, 2, 3>>, <<1, 2, 3, 4, 5, 6, 7, 8>>,
            <<3048, 3056, 3048, 3056, 3048, 3056, 6098, 6098>>) }

\* The scans called, <<eps_range, eps_step>>: a step that divides the
\* width of the range, one that does not, one wider than the range, and a
\* range that ends before it starts.
ScanInputs ==
    {<< <<1, 5>>, 1 >>, << <<3, 6>>, 2 >>, << <<3, 4>>, 2 >>, << <<4, 3>>, 1 >>}

\* What the global name may stand for.
Globals ==
    {Unbound, BoundToSelf,
     BoundTo(<< Event(Star \o << <<5, 0, 0>> >>,
                      <<1, 1, 1, 1, 1, 1, 2>>, <<1, 2, 3, 4, 5, 6, 7>>,
                      <<3048, 3056, 3048, 3056, 3048, 3056, 6098>>) >>)}

InitScan ==
    \E events \in SeqsUpto(ScanPool, MaxEvents), g \in Globals :
        /\ InitSession(events)
        /\ neutron_clustering = g

NextScan ==
    \/ CalculateCaptureRatio
    \/ \E input \in ScanInputs : ScanEpsValues(input[1], input[2])
    \/ ScanLoop

SpecScan == InitScan /\ [][NextScan]_vars

----------------------------------------------------------------------------
(* A session of events of either pool on which cluster, calc_scores and     *)
(* scan_eps_values are called in any order, one call at a time, in the      *)
(* script (the global name stands for the session) or in a process that     *)
(* imported the module.                                                     *)

\* One event of each pool: the one with a close pair and a far deposit, and
\* the star with a deposit at 4.
OpsPool ==
    {e \in EventPool \cup ScanPool : Len(e.pos) \in {3, 7} /\ e.nid[1] = 1}

InitOps ==
    \E events \in SeqsUpto(OpsPool, MaxEvents) :
        /\ InitSession(events)
        /\ neutron_clustering \in {Unbound, BoundToSelf}

NextOps ==
    \/ CalculateCaptureRatio
    \/ \E c \in SessionCalls :
           /\ scan.pc # "loop"
           /\ Cluster("neutron", c[1], c[2])
           /\ UNCHANGED first_run
    \/ /\ scan.pc # "loop"
       /\ CalcScores("neutron")
       /\ UNCHANGED held_scores
    \/ \E input \in ScanInputs : ScanEpsValues(input[1], input[2])
    \/ ScanLoop

SpecOps == InitOps /\ [][NextOps]_vars

----------------------------------------------------------------------------
(* Depth fits over the datasets of both pools. *)

MaxBins == 3    \* num_bins of a fit

InitFit ==
    \E events \in SeqsUpto(EventPool \cup ScanPool, MaxEvents) :
        /\ InitSession(events)
        /\ neutron_clustering = Unbound

NextFit ==
    \/ CalculateCaptureRatio
    \/ \E num_bins \in 1..MaxBins : FitDepthExponential(num_bins)

SpecFit == InitFit /\ [][NextFit]_vars

----------------------------------------------------------------------------
(* Properties. *)

StateErrors == {"No predictions", "Only predictions"}

\* C1: calc_scores raises its state error, and leaves the scores alone,
\* exactly when cluster_predictions is empty or does not hold num_events
\* entries; otherwise it goes on to score (the first event's homogeneity is
\* in the list).  Under Spec.
C1_StateError ==
    [][call'.op = "calc_scores" =>
         LET bad == \/ cluster_predictions = <<>>
                    \/ Len(cluster_predictions) # num_events
         IN  /\ bad => /\ call'.raised = "ValueError"
                       /\ call'.msg \in StateErrors
                       /\ scores' = scores
             /\ ~bad => /\ call'.msg \notin StateErrors
                        /\ cluster_scores'["homogeneity"] # <<>>
                        /\ cluster_scores'["homogeneity"][1].args[2]
                               = cluster_predictions[1]]_vars

\* calc_scores was refused on a collection that is not empty but short.
C1_Witness ==
    /\ call.op = "calc_scores"
    /\ call.msg = "Only predictions"
    /\ cluster_predictions # <<>>
    /\ Len(cluster_predictions) < num_events

\* C2: for a recognized algorithm, cluster raises the unrecognized-parameter
\* error if and only if params has a key outside cluster_params[alg]; the
\* error names such a key and the algorithm's parameter set.  Under
\* SpecCluster.
C2_UnknownKey ==
    (call.op = "cluster" /\ call.alg \in Algorithms) =>
        LET legal == Keys(ClusterParams(call.alg))
            refused == /\ call.raised = "ValueError"
                       /\ call.msg = "Unrecognized parameter"
        IN  /\ refused <=> ~(Keys(call.params) \subseteq legal)
            /\ refused => /\ call.item \in Keys(call.params) \ legal
                          /\ call.legal = legal

\* An unknown key that follows a known one was refused.
C2_Witness ==
    /\ call.op = "cluster"
    /\ call.alg = "dbscan"
    /\ call.msg = "Unrecognized parameter"
    /\ call.item = "bogus"
    /\ call.params[1][1] = "eps"

\* C3: a cluster call with an unknown algorithm name does not fail and
\* leaves a complete collection, the labels of DBSCAN with eps = 100 and
\* min_samples = 6 for every event.  Under SpecCluster.
C3_FallbackCompletes ==
    (call.op = "cluster" /\ call.alg \notin Algorithms) =>
        /\ call.raised = "none"
        /\ Len(cluster_predictions) = num_events
        /\ \A ii \in 1..num_events :
               cluster_predictions[ii] =
                   DbscanLabels(edep_positions[ii], ClusterParams("dbscan"))

\* Beside C3: an unknown algorithm name is never refused, whatever params
\* holds, and the call leaves what DBSCAN with the defaults computes: its
\* labels for every event before the first one without deposits, on which
\* the fit raises.  Under SpecCluster.
C3_FallbackIsDefaultDbscan ==
    (call.op = "cluster" /\ call.alg \notin Algorithms) =>
        LET empty == {ii \in 1..num_events : Len(edep_positions[ii]) = 0}
            upto == IF empty = {} THEN num_events ELSE Min(empty) - 1
        IN  /\ call.msg # "Unrecognized parameter"
            /\ call.raised = (IF empty = {} THEN "none" ELSE "ValueError")
            /\ cluster_predictions =
                   [ii \in 1..upto |->
                       DbscanLabels(edep_positions[ii],
                                    ClusterParams("dbscan"))]

\* C4: after a cluster call with a recognized algorithm that did not raise,
\* cluster_predictions has one entry per event, and the entry of event i
\* one integer label per point of event i.  Under SpecCluster.
C4_OneLabelPerPoint ==
    (call.op = "cluster" /\ call.alg \in Algorithms /\ call.raised = "none")
        => /\ Len(cluster_predictions) = num_events
           /\ \A ii \in 1..num_events :
                  /\ Len(cluster_predictions[ii]) = Len(edep_positions[ii])
                  /\ \A k \in 1..Len(cluster_predictions[ii]) :
                         cluster_predictions[ii][k] \in Int

\* DBSCAN succeeded on two events and set a point of the first aside as
\* noise.
C4_Witness ==
    /\ call.op = "cluster"
    /\ call.alg = "dbscan"
    /\ call.raised = "none"
    /\ num_events = 2
    /\ cluster_predictions[1] = <<0, 0, -1>>
    /\ Len(cluster_predictions[2]) = 3

\* The labels a successful cluster call may leave for the event at pos.
FreshLabels(alg, params, pos) ==
    IF alg \notin Algorithms
    THEN {DbscanLabels(pos, ClusterParams("dbscan"))}
    ELSE IF alg = "dbscan" THEN {DbscanLabels(pos, params)}
    ELSE {Labelling(pick, Len(pos)) : pick \in Labellings}

\* C5: a cluster call that does not raise leaves exactly num_events
\* entries, each the labels that call computed for its event, whatever the
\* collection held before; and no step changes the input arrays.  Under
\* Spec.
C5_ReplacedWholesale ==
    [][/\ dataset' = dataset
       /\ (call'.op = "cluster" /\ call'.raised = "none") =>
              /\ Len(cluster_predictions') = num_events
              /\ \A ii \in 1..num_events :
                     cluster_predictions'[ii] \in
                         FreshLabels(call'.alg, call'.params,
                                     edep_positions[ii])]_vars

\* A cluster call succeeded after an earlier run had been scored, and the
\* collection is not the one those scores were computed from.
C5_Witness ==
    /\ call.op = "cluster"
    /\ call.raised = "none"
    /\ Len(cluster_scores["homogeneity"]) = num_events
    /\ cluster_scores["homogeneity"][1].args[2] # cluster_predictions[1]
    /\ Len(cluster_predictions) = num_events

\* The per-event value of a metric for the current predictions.
EventScore(metric, level, ii) ==
    IF metric = "silhouette"
    THEN Score(metric, edep_positions[ii], cluster_predictions[ii])
    ELSE Score(metric,
               IF level = "gamma" THEN edep_gamma_ids[ii]
               ELSE edep_neutron_ids[ii],
               cluster_predictions[ii])

\* C6: after a calc_scores that did not raise, each of the six lists holds
\* num_events values, the values of this run, and each average is the sum
\* of its list over the number of events.  Under Spec.
C6_ArithmeticMean ==
    (call.op = "calc_scores" /\ call.raised = "none") =>
        \A m \in Metrics :
            /\ Len(cluster_scores[m]) = num_events
            /\ \A ii \in 1..num_events :
                   cluster_scores[m][ii].metric = m
                   /\ cluster_scores[m][ii].args[2] = cluster_predictions[ii]
            /\ avg_cluster_scores[m].sum = cluster_scores[m]
            /\ avg_cluster_scores[m].n = num_events

\* A scoring run over two events succeeded.
C6_Witness ==
    /\ call.op = "calc_scores"
    /\ call.raised = "none"
    /\ num_events = 2
    /\ Len(avg_cluster_scores["silhouette"].sum) = 2

\* The number of clusters of a prediction, noise apart.
NonNoiseClusters(pred) == Cardinality(Range(pred) \ {-1})

\* C7: when the collection is complete and some event's prediction has
\* fewer than two clusters apart from noise, calc_scores does not raise and
\* the five other metrics hold a value for every event.  Under Spec.
C7_SilhouettePerEvent ==
    (/\ call.op = "calc_scores"
     /\ call.msg \notin StateErrors
     /\ \E ii \in 1..Len(cluster_predictions) :
            NonNoiseClusters(cluster_predictions[ii]) < 2)
        => /\ call.raised = "none"
           /\ \A m \in Metrics \ {"silhouette"} :
                  Len(cluster_scores[m]) = num_events

\* C8: calc_scores compares with the gamma ids for level 'gamma' and with
\* the neutron ids for 'neutron' and for any other level, which it accepts
\* as it accepts 'neutron'.  Under Spec.
C8_LevelSelectsTruth ==
    (call.op = "calc_scores" /\ call.msg \notin StateErrors) =>
        /\ \A m \in Metrics \ {"silhouette"} :
               \A ii \in 1..Len(cluster_scores[m]) :
                   cluster_scores[m][ii].args[1] =
                       IF call.level = "gamma" THEN edep_gamma_ids[ii]
                       ELSE edep_neutron_ids[ii]
        /\ call.raised = "none" =>
               \A m \in Metrics :
                   avg_cluster_scores[m] =
                       [sum |-> [ii \in 1..num_events |->
                                    EventScore(m, call.level, ii)],
                        n |-> num_events]

\* A run at an unknown level was scored against neutron ids that differ
\* from the gamma ids.
C8_Witness ==
    /\ call.op = "calc_scores"
    /\ call.level = "electron"
    /\ call.raised = "none"
    /\ cluster_scores["completeness"][1].args[1] = edep_neutron_ids[1]
    /\ edep_neutron_ids[1] # edep_gamma_ids[1]

\* The exact sum of the energies of the points of `truth` with id g.
RECURSIVE SetSum(_, _)
SetSum(energy, K) ==
    IF K = {} THEN 0
    ELSE LET k == CHOOSE x \in K : TRUE
         IN  energy[k] + SetSum(energy, K \ {k})

GroupEnergy(truth, energy, g) ==
    SetSum(energy, {k \in 1..Len(truth) : truth[k] = g})

\* e thousandths is nearer to 6.10 than to any other hundredth.
NearestIsCapture(e) ==
    /\ e - 10 * CaptureEnergy < 5
    /\ 10 * CaptureEnergy - e < 5

Permuted(s, p) == [k \in 1..Len(s) |-> s[p[k]]]

\* C9: for every event, total is the number of distinct neutron ids of its
\* points and complete the number of those groups whose energy sum rounds
\* to 6.1 at two decimals; the counts are those of every reordering of the
\* event's points.  Under SpecCapture.
C9_GroupCounts ==
    pc # "new" =>
        /\ Len(num_captures) = num_events
        /\ Len(num_complete_captures) = num_events
        /\ \A ii \in 1..num_events :
               LET truth == edep_neutron_ids[ii]
                   energy == edep_energy[ii]
               IN  /\ num_captures[ii] = Cardinality(Range(truth))
                   /\ num_complete_captures[ii] =
                          Cardinality({g \in Range(truth) :
                              NearestIsCapture(GroupEnergy(truth, energy, g))})
                   /\ \A p \in Permutations(1..Len(truth)) :
                          EventCaptures(Permuted(truth, p),
                                        Permuted(energy, p))
                              = [total |-> num_captures[ii],
                                 complete |-> num_complete_captures[ii]]

\* An event whose ids are neither sorted nor contiguous has two groups,
\* one of them complete by rounding 6.104.
C9_Witness ==
    /\ pc = "ready"
    /\ \E ii \in 1..num_events :
           /\ edep_neutron_ids[ii] = <<7, 3, 7>>
           /\ edep_energy[ii] = <<3048, 3048, 3056>>
           /\ num_captures[ii] = 2
           /\ num_complete_captures[ii] = 1

\* C10: the capture ratio is the integer nearest to 100 times the sum of
\* the complete counts over the sum of the total counts.  Under
\* SpecCapture.
C10_RatioOfSums ==
    pc = "ready" =>
        /\ Len(capture_ratio) = 1
        /\ LET r == capture_ratio[1]
               complete == SeqSum(num_complete_captures)
               total == SeqSum(num_captures)
           IN  /\ r \in 0..100
               /\ 2 * (100 * complete - r * total) <= total
               /\ 2 * (r * total - 100 * complete) <= total

\* One event with its only group complete, one with two incomplete groups:
\* the ratio of the sums is 33, the mean of the events' ratios 50.
C10_Witness ==
    /\ pc = "ready"
    /\ num_captures = <<1, 2>>
    /\ num_complete_captures = <<1, 0>>
    /\ capture_ratio = <<33>>

\* C11: once the ratio is computed, no event has more complete groups than
\* groups, the ratio is within 0..100, and it is 100 when the energy sum of
\* every truth group of the dataset rounds to 6.1.  Under SpecCapture.
C11_RatioBounds ==
    pc = "ready" =>
        /\ \A ii \in 1..num_events :
               /\ 0 <= num_complete_captures[ii]
               /\ num_complete_captures[ii] <= num_captures[ii]
        /\ capture_ratio[1] >= 0
        /\ capture_ratio[1] <= 100
        /\ (\A ii \in 1..num_events :
               \A g \in Range(edep_neutron_ids[ii]) :
                   NearestIsCapture(GroupEnergy(edep_neutron_ids[ii],
                                                edep_energy[ii], g)))
               => capture_ratio[1] = 100

\* Two events of one group each, one complete by a single deposit and one
\* by the sum of two: the ratio is 100.
C11_Witness ==
    /\ pc = "ready"
    /\ num_captures = <<1, 1>>
    /\ num_complete_captures = <<1, 1>>
    /\ capture_ratio = <<100>>
    /\ \E ii \in 1..num_events : Len(edep_energy[ii]) = 2

\* C12: when no event has a truth group, computing the ratio raises
\* ZeroDivisionError, which leaves __init__: no ratio is assigned and no
\* object is handed out; with a truth group it does not raise.  Under
\* SpecCapture.
C12_ZeroDivision ==
    pc # "new" =>
        LET none == \A ii \in 1..num_events : edep_neutron_ids[ii] = <<>>
        IN  /\ none => /\ call.raised = "ZeroDivisionError"
                       /\ pc = "failed"
                       /\ capture_ratio = <<>>
            /\ ~none => /\ call.raised = "none"
                        /\ pc = "ready"

\* The division raised on a dataset of two events without deposits, each
\* with its (0, 0) entry.
C12_Witness ==
    /\ pc = "failed"
    /\ call.raised = "ZeroDivisionError"
    /\ num_events = 2
    /\ num_captures = <<0, 0>>
    /\ num_complete_captures = <<0, 0>>

\* The values start + i*step below the end of the range, ascending.
ValuesBelowEnd(eps_range, eps_step) ==
    LET width == eps_range[2] - eps_range[1]
        n == (width + eps_step - 1) \div eps_step
    IN  [k \in 1..n |-> eps_range[1] + (k - 1) * eps_step]

\* C13: a scan over a range that starts below its end, with a positive
\* step, goes through exactly the values start + i*step below the end, in
\* ascending order, and the table it writes has the header and one row per
\* such value.  Under SpecScan.
C13_ScanValues ==
    (/\ scan.pc \in {"loop", "done"}
     /\ scan.eps_range[1] < scan.eps_range[2]
     /\ scan.eps_step > 0)
        => /\ scan.eps_values = ValuesBelowEnd(scan.eps_range, scan.eps_step)
           /\ scan.pc = "done" =>
                  Len(csv_file[1]) =
                      1 + Len(ValuesBelowEnd(scan.eps_range, scan.eps_step))

\* Beside C13: the scan of [1, 5) with step 1, and every scan whose step
\* divides the width of its range, does as C13 says.  Under SpecScan.
C13_WhenStepDivides ==
    (/\ scan.pc \in {"loop", "done"}
     /\ scan.eps_range[1] < scan.eps_range[2]
     /\ (scan.eps_range[2] - scan.eps_range[1]) % scan.eps_step = 0)
        => /\ scan.eps_values = ValuesBelowEnd(scan.eps_range, scan.eps_step)
           /\ scan.pc = "done" =>
                  Len(csv_file[1]) =
                      1 + Len(ValuesBelowEnd(scan.eps_range, scan.eps_step))

\* The scan of [1, 5) with step 1 wrote its table.
C13_FourRows ==
    /\ scan.pc = "done"
    /\ scan.eps_range = <<1, 5>>
    /\ scan.eps_step = 1
    /\ Len(csv_file[1]) = 5

\* The rows of `table` after the first: seven entries each, a value and
\* then the average of each metric in the order the header names them.
DataRowsFollow(table, header) ==
    \A r \in 2..Len(table) :
        /\ Len(table[r]) = 7
        /\ table[r][1] \in Int
        /\ \A k \in 2..7 :
               /\ DOMAIN table[r][k] = {"sum", "n"}
               /\ table[r][k].sum # <<>>
               /\ \A t \in 1..Len(table[r][k].sum) :
                      table[r][k].sum[t].metric = header[k]

\* C14: the table of a scan, and the table written, start with the row
\* eps, homogeneity, completeness, v-measure, adjusted_rand_index,
\* adjusted_mutual_info, silhouette, and every other row holds the scanned
\* value and then the six averages in that order.  Under SpecScan.
C14_TableLayout ==
    LET header == <<"eps", "homogeneity", "completeness", "v-measure",
                    "adjusted_rand_index", "adjusted_mutual_info",
                    "silhouette">>
    IN  /\ scan.scores # <<>> =>
               /\ scan.scores[1] = header
               /\ DataRowsFollow(scan.scores, header)
               /\ \A r \in 2..Len(scan.scores) :
                      scan.scores[r][1] = scan.eps_values[r - 1]
        /\ csv_file # <<>> =>
               /\ csv_file[1][1] = header
               /\ DataRowsFollow(csv_file[1], header)

\* A table of two data rows or more was written, the first for eps = 1.
C14_Witness ==
    /\ scan.pc = "done"
    /\ csv_file = <<scan.scores>>
    /\ Len(csv_file[1]) >= 3
    /\ csv_file[1][2][1] = 1
    /\ csv_file[1][2][7].sum[1].metric = "silhouette"

\* cluster or calc_scores raises for the session d and the value eps: an
\* event has no deposit, or the labels DBSCAN gives an event have no
\* silhouette.
IterationRaises(d, eps) ==
    \/ d.num_events = 0
    \/ \E ii \in 1..d.num_events :
           \/ d.edep_positions[ii] = <<>>
           \/ SilhouetteRaises(
                  DbscanLabels(d.edep_positions[ii], ScanParams(eps)))

\* C15: when the global name is unbound, or clustering or scoring raises
\* for a value, the scan ends there with that exception, its table is not
\* extended and no file is written; and a scan that ended so clusters and
\* writes nothing more.  Under SpecScan.
C15_ScanStops ==
    [][/\ (/\ scan.pc = "loop"
           /\ \/ neutron_clustering.binding = "unbound"
              \/ IterationRaises(Driven,
                                 scan.eps_values[scan.done + 1]))
          => /\ scan'.pc = "failed"
             /\ call'.op = "scan_eps_values"
             /\ call'.raised # "none"
             /\ returned' = "nothing"
             /\ scan'.scores = scan.scores
             /\ csv_file' = csv_file
       /\ scan.pc = "failed"
          => /\ Len(scan'.scores) = 1
             /\ cluster_predictions' = cluster_predictions
             /\ scores' = scores
             /\ neutron_clustering' = neutron_clustering
             /\ csv_file' = csv_file]_vars

\* A scan ended on the silhouette of its fourth value, with three rows in
\* its table and no file written.
C15_Witness ==
    /\ scan.pc = "failed"
    /\ call.raised = "ValueError"
    /\ call.msg = "silhouette"
    /\ scan.done = 3
    /\ Len(scan.scores) = 4
    /\ csv_file = <<>>

\* C16: when the optimizer of curve_fit gives up, fit_depth_exponential
\* ends with its RuntimeError: it hands nothing back, holds no fit
\* parameters and draws nothing.  Under SpecFit.
C16_FitErrorRaised ==
    [][(call'.op = "fit_depth_exponential" /\ exp_fit'.status = "diverged")
          => /\ call'.raised = "RuntimeError"
             /\ returned' = "nothing"
             /\ exp_fit'.popt = <<>>
             /\ figure' = figure]_vars

\* The optimizer gave up in a session where an earlier fit had converged
\* and drawn its figure.
C16_Witness ==
    /\ call.op = "fit_depth_exponential"
    /\ call.raised = "RuntimeError"
    /\ exp_fit.status = "diverged"
    /\ figure # <<>>

\* C17: a fit_depth_exponential that did not raise hands its caller a
\* result (the two parameters, the mid points, the density and the
\* cumulative curve), not None.  Under SpecFit.
C17_ReturnsFitResult ==
    (call.op = "fit_depth_exponential" /\ call.raised = "none")
        => returned = "ExponentialFitResult"

\* Beside C17: what a fit that did not raise computed is in its figure:
\* one mid point, one density and one cumulative value per bin, the
\* cumulative curve ending at the whole, and the parameters fitted to
\* those mid points and densities.  Under SpecFit.
C17_FigureHoldsFit ==
    (call.op = "fit_depth_exponential" /\ call.raised = "none")
        => /\ exp_fit.status = "converged"
           /\ Len(figure) = 1
           /\ Len(figure[1].mid_points) = Len(figure[1].y_hist)
           /\ Len(figure[1].cum_hist) = Len(figure[1].y_hist)
           /\ figure[1].cum_hist[Len(figure[1].cum_hist)].num
                  = figure[1].cum_hist[1].den
           /\ figure[1].exp_fit = <<figure[1].mid_points, figure[1].y_hist>>

\* C18: a cluster call that returns, with the algorithm name and params of
\* the session's first call that returned, leaves the collection that
\* first call left, whatever was clustered or scored in between (every
\* call of the session that returns runs DBSCAN).  Under SpecRerun.
C18_SameRunSameLabels ==
    [][(/\ call'.op = "cluster"
        /\ call'.raised = "none"
        /\ first_run # <<>>
        /\ call'.alg = first_run[1].alg
        /\ call'.params = first_run[1].params)
          => cluster_predictions' = first_run[1].predictions]_vars

\* The first call was repeated after another clustering, with other
\* labels, had been run and scored.
C18_Witness ==
    /\ first_run # <<>>
    /\ call.op = "cluster"
    /\ call.raised = "none"
    /\ call.alg = first_run[1].alg
    /\ call.params = first_run[1].params
    /\ cluster_predictions = first_run[1].predictions
    /\ Len(cluster_scores["homogeneity"]) = num_events
    /\ cluster_scores["homogeneity"][1].args[2] # cluster_predictions[1]
    /\ \E k \in 1..Len(cluster_predictions[1]) :
           cluster_predictions[1][k] # -1

\* C19: in every state in which each of the six lists holds one score per
\* event, the scores and the averages are those of the current
\* cluster_predictions.  Under Spec.
C19_ScoresTiedToRun ==
    (/\ num_events > 0
     /\ \A m \in Metrics : Len(cluster_scores[m]) = num_events)
        => /\ Len(cluster_predictions) = num_events
           /\ \A m \in Metrics :
                  /\ \A ii \in 1..num_events :
                         cluster_scores[m][ii].args[2]
                             = cluster_predictions[ii]
                  /\ avg_cluster_scores[m].sum = cluster_scores[m]

\* Beside C19: right after a calc_scores that did not raise, the lists and
\* the averages are those of the current cluster_predictions.  Under Spec.
C19_TiedAfterScoring ==
    (call.op = "calc_scores" /\ call.raised = "none")
        => /\ Len(cluster_predictions) = num_events
           /\ \A m \in Metrics :
                  /\ Len(cluster_scores[m]) = num_events
                  /\ \A ii \in 1..num_events :
                         cluster_scores[m][ii].args[2]
                             = cluster_predictions[ii]
                  /\ avg_cluster_scores[m].sum = cluster_scores[m]

\* C20: a turn of the scan's loop that does not raise appends one row and
\* changes no earlier row; the row holds the next value of the scan, above
\* the value of the row before, and the six averages of the session the
\* scan drives, which are the scores of the labels DBSCAN gives that
\* session's events for this value and min_samples = 6, the labels the
\* session now holds.  Under SpecScan.
C20_RowPerValue ==
    [][(scan.pc = "loop" /\ call'.raised = "none") =>
         LET eps == scan.eps_values[scan.done + 1]
             n == Len(scan.scores)
             row == scan'.scores[n + 1]
             d == Driven'
         IN  /\ Len(scan'.scores) = n + 1
             /\ SubSeq(scan'.scores, 1, n) = scan.scores
             /\ row[1] = eps
             /\ n > 1 => scan.scores[n][1] < eps
             /\ d.cluster_predictions =
                    [ii \in 1..d.num_events |->
                        DbscanLabels(d.edep_positions[ii],
                            << <<"eps", eps>>, <<"min_samples", 6>> >>)]
             /\ \A k \in 1..6 :
                    /\ row[k + 1] = d.avg_cluster_scores[MetricNames[k]]
                    /\ row[k + 1].n = d.num_events
                    /\ Len(row[k + 1].sum) = d.num_events
                    /\ \A ii \in 1..d.num_events :
                           /\ row[k + 1].sum[ii].metric = MetricNames[k]
                           /\ row[k + 1].sum[ii].args[2]
                                  = d.cluster_predictions[ii]]_vars

\* A scan of the session itself holds rows for eps = 1 and eps = 2 whose
\* scores are those of different labels.
C20_Witness ==
    /\ neutron_clustering.binding = "self"
    /\ Len(scan.scores) >= 3
    /\ scan.scores[2][1] = 1
    /\ scan.scores[3][1] = 2
    /\ scan.scores[2][2].sum[1].args[2] # scan.scores[3][2].sum[1].args[2]

\* The labels a session made of the one event at pos gets from the call.
AloneLabels(alg, params, pos) ==
    LET known == alg \in Algorithms
        alg_used == IF known THEN alg ELSE "dbscan"
        params_used == IF known THEN params ELSE ClusterParams("dbscan")
    IN  {RunClusterer(<<>>, alg_used, params_used, <<pos>>, <<pick>>)[1] :
            pick \in Picks(alg_used)}

\* C21: every entry a cluster call stores, in a call that finished or in
\* one that a later event stopped, is at the index of its event and is what
\* the same call computes for that event alone: the other events, the
\* entries held before and the events fitted earlier have no part in it.
\* Under SpecCluster.
C21_PerEventLabels ==
    [][(/\ call'.op = "cluster"
        /\ call'.msg # "Unrecognized parameter"
        /\ call'.raised # "AttributeError") =>
           /\ Len(cluster_predictions') <= num_events
           /\ \A ii \in 1..Len(cluster_predictions') :
                  /\ Len(cluster_predictions'[ii]) = Len(edep_positions[ii])
                  /\ cluster_predictions'[ii] \in
                         AloneLabels(call'.alg, call'.params,
                                     edep_positions[ii])]_vars

\* DBSCAN ran over two events whose points and labels differ.
C21_Witness ==
    /\ call.op = "cluster"
    /\ call.alg = "dbscan"
    /\ call.raised = "none"
    /\ num_events = 2
    /\ cluster_predictions[1] = <<0, 0, 1>>
    /\ cluster_predictions[2] = <<0, 1, 0>>
    /\ edep_positions[1] # edep_positions[2]

\* C22: once the ratio has been computed, num_captures and
\* num_complete_captures hold one entry per event, at the event's index
\* (the number of its truth groups, and at most as many complete ones); an
\* event without deposits has 0 in both and does not make the computation
\* raise when another event has a truth group.  Under SpecCapture.
C22_EmptyEventSlot ==
    pc # "new" =>
        /\ Len(num_captures) = num_events
        /\ Len(num_complete_captures) = num_events
        /\ \A ii \in 1..num_events :
               /\ num_captures[ii] = Cardinality(Range(edep_neutron_ids[ii]))
               /\ num_complete_captures[ii] <= num_captures[ii]
               /\ edep_neutron_ids[ii] = <<>> =>
                      /\ num_captures[ii] = 0
                      /\ num_complete_captures[ii] = 0
        /\ (\E ii \in 1..num_events : edep_neutron_ids[ii] # <<>>) =>
               call.raised = "none"

\* The ratio was computed for an event without deposits followed by an
\* event with a complete capture.
C22_Witness ==
    /\ pc = "ready"
    /\ num_events = 2
    /\ edep_neutron_ids[1] = <<>>
    /\ num_captures = <<0, 1>>
    /\ num_complete_captures = <<0, 1>>
    /\ capture_ratio = <<100>>

\* C23: for a dataset with a deposit and any number of bins, every depth
\* is >= 0 and the smallest is 0; the histogram has num_bins bins, every
\* depth lies between the edges of one of them and the counts add up to
\* the number of depths; the densities add up to 1; the cumulative curve
\* does not decrease, stays within [0, 1] and ends at 1; and the figure of
\* a fit that went through holds these densities and this curve.  Under
\* SpecFit.
C23_HistogramShape ==
    (pc = "ready" /\ YPos(edep_positions) # <<>>) =>
        LET depth == Depth(YPos(edep_positions))
        IN  /\ \A k \in 1..Len(depth) : depth[k] >= 0
            /\ \E k \in 1..Len(depth) : depth[k] = 0
            /\ \A num_bins \in 1..MaxBins :
                   LET counts == Histogram(depth, num_bins)
                       y_hist == Density(counts)
                       cum_hist == CumHist(counts)
                   IN  /\ Len(counts) = num_bins
                       /\ SeqSum(counts) = Len(depth)
                       /\ \A k \in 1..Len(depth) :
                              \E b \in 1..num_bins :
                                  /\ Edge(b - 1, depth, num_bins).num
                                         <= depth[k] * 2 * num_bins
                                  /\ depth[k] * 2 * num_bins
                                         <= Edge(b, depth, num_bins).num
                                  /\ counts[b] > 0
                       /\ Len(y_hist) = num_bins
                       /\ \A b \in 1..num_bins :
                              /\ y_hist[b].den = Len(depth)
                              /\ cum_hist[b].den = Len(depth)
                              /\ 0 <= cum_hist[b].num
                              /\ cum_hist[b].num <= cum_hist[b].den
                              /\ b > 1 =>
                                     /\ cum_hist[b].num >= cum_hist[b - 1].num
                                     /\ cum_hist[b].num =
                                            cum_hist[b - 1].num + y_hist[b].num
                       /\ SeqSum([b \in 1..num_bins |-> y_hist[b].num])
                              = Len(depth)
                       /\ cum_hist[1] = y_hist[1]
                       /\ cum_hist[num_bins].num = cum_hist[num_bins].den
                       /\ (/\ call.op = "fit_depth_exponential"
                           /\ call.raised = "none"
                           /\ Len(figure[1].y_hist) = num_bins) =>
                              /\ figure[1].y_hist = y_hist
                              /\ figure[1].cum_hist = cum_hist

\* A fit over three bins went through, the middle bin empty and the curve
\* strictly between 0 and 1 before its end.
C23_Witness ==
    /\ call.op = "fit_depth_exponential"
    /\ call.raised = "none"
    /\ Len(figure[1].y_hist) = 3
    /\ figure[1].y_hist[2].num = 0
    /\ 0 < figure[1].cum_hist[1].num
    /\ figure[1].cum_hist[1].num < figure[1].cum_hist[1].den

\* C24: a cluster call with a recognized algorithm name and the default of
\* the params argument is not refused for its parameters.  Under
\* SpecCluster.
C24_DefaultAccepted ==
    (/\ call.op = "cluster"
     /\ call.alg \in Algorithms
     /\ call.params = ParamsDefault) =>
        call.msg # "Unrecognized parameter"

\* Beside C24: the default of the params argument is accepted for dbscan,
\* whose parameter set it is, and refused for every other recognized
\* algorithm, none of which has the parameter eps.  Under SpecCluster.
C24_DefaultIsDbscans ==
    (/\ call.op = "cluster"
     /\ call.alg \in Algorithms
     /\ call.params = ParamsDefault) =>
        /\ ParamsDefault = ClusterParams("dbscan")
        /\ call.alg = "dbscan" => call.msg # "Unrecognized parameter"
        /\ call.alg # "dbscan" =>
               /\ call.raised = "ValueError"
               /\ call.msg = "Unrecognized parameter"
               /\ call.item = "eps"

\* C25: a cluster call, returning or raising, leaves either the collection
\* held before it or one entry per event.  Under SpecCluster.
C25_NeverPartial ==
    [][call'.op = "cluster" =>
           \/ cluster_predictions' = cluster_predictions
           \/ Len(cluster_predictions') = num_events]_vars

\* Beside C25: a call refused for its parameters or for the missing
\* gaussian estimator leaves the collection held before, and a call that
\* returns leaves one entry per event; a call stopped by the fit of event
\* ii leaves the ii - 1 entries of the events before it.  Under SpecCluster.
C25_PartialOnlyWhenFitRaises ==
    [][call'.op = "cluster" =>
           /\ call'.msg = "Unrecognized parameter" =>
                  cluster_predictions' = cluster_predictions
           /\ call'.raised = "AttributeError" =>
                  cluster_predictions' = cluster_predictions
           /\ call'.raised = "none" =>
                  Len(cluster_predictions') = num_events
           /\ call'.msg = "fit" =>
                  /\ call'.raised = "ValueError"
                  /\ Len(cluster_predictions') < num_events]_vars

\* C26: a calc_scores call that raises leaves the six score lists and the
\* six averages as they were before the call.  Under Spec.
C26_RaiseKeepsScores ==
    [][(call'.op = "calc_scores" /\ call'.raised # "none") =>
           scores' = scores]_vars

\* Beside C26: a calc_scores call that raises leaves the averages as they
\* were, and the lists too when it is refused for the state of
\* cluster_predictions; a call stopped by a metric leaves lists that are
\* not those held before.  Under Spec.
C26_AveragesKept ==
    [][(call'.op = "calc_scores" /\ call'.raised # "none") =>
           /\ avg_cluster_scores' = avg_cluster_scores
           /\ call'.msg \in StateErrors => cluster_scores' = cluster_scores
           /\ call'.msg \notin StateErrors =>
                  /\ call'.msg = "silhouette"
                  /\ \E m \in Metrics :
                         Len(cluster_scores'[m]) < num_events]_vars

\* What C27 asks of a turn of the scan's loop for the value eps: the session
\* now holds DBSCAN's labels of its own events for eps, the new row holds the
\* session's averages, and the object the global name stands for is as it
\* was.
TurnDrivesSelf(eps) ==
    /\ neutron_clustering' = neutron_clustering
    /\ cluster_predictions' =
           [ii \in 1..num_events |->
               DbscanLabels(edep_positions[ii],
                   << <<"eps", eps>>, <<"min_samples", 6>> >>)]
    /\ \A k \in 1..6 :
           scan'.scores[Len(scan'.scores)][k + 1]
               = avg_cluster_scores'[MetricNames[k]]

\* C27: a turn of the scan's loop that does not raise clusters and scores
\* the session scan_eps_values was called on, and no other object.  Under
\* SpecScan.
C27_ScanDrivesSelf ==
    [][(scan.pc = "loop" /\ call'.raised = "none") =>
           TurnDrivesSelf(scan.eps_values[scan.done + 1])]_vars

\* Beside C27: the turn does so when the global name stands for the session
\* itself; when the name is unbound the turn raises NameError, and when it
\* stands for another object the session's labels and scores stay as they
\* were.  Under SpecScan.
C27_OnlyWhenGlobalIsSelf ==
    [][scan.pc = "loop" =>
           /\ (neutron_clustering.binding = "self" /\ call'.raised = "none")
                  => TurnDrivesSelf(scan.eps_values[scan.done + 1])
           /\ neutron_clustering.binding = "unbound" =>
                  call'.raised = "NameError"
           /\ neutron_clustering.binding # "self" =>
                  /\ cluster_predictions' = cluster_predictions
                  /\ scores' = scores]_vars

C28_ReturnedIsTheAttribute ==
    /\ (call.op = "calc_scores" /\ call.raised = "none")
           => returned = "avg_cluster_scores"
    /\ held_scores # <<>> =>
           /\ held_scores[1].mapping = "avg_cluster_scores"
           /\ Deref(held_scores[1].mapping, avg_cluster_scores)
                  = avg_cluster_scores

\* A range that holds no scan value: it ends at or before its start, or it
\* is narrower than one step.
NoScanValue(eps_range, eps_step) ==
    \/ eps_range[2] <= eps_range[1]
    \/ eps_range[2] - eps_range[1] < eps_step

\* C29: a scan over a range that holds no scan value raises nothing, runs
\* no clustering and no scoring, and writes the table of the header row
\* alone.  Under SpecScan.
C29_EmptyScanWritesHeader ==
    [][(/\ call'.op = "scan_eps_values"
        /\ NoScanValue(scan'.eps_range, scan'.eps_step)) =>
           /\ call'.raised = "none"
           /\ csv_file' = << <<Header>> >>
           /\ cluster_predictions' = cluster_predictions
           /\ scores' = scores
           /\ neutron_clustering' = neutron_clustering]_vars

\* Beside C29: such a scan runs no clustering and no scoring, but it raises
\* IndexError before its loop and writes no table.  Under SpecScan.
C29_EmptyScanRaises ==
    [][(/\ call'.op = "scan_eps_values"
        /\ NoScanValue(scan'.eps_range, scan'.eps_step)) =>
           /\ scan'.eps_values = <<>>
           /\ call'.raised = "IndexError"
           /\ scan'.pc = "failed"
           /\ csv_file' = csv_file
           /\ cluster_predictions' = cluster_predictions
           /\ scores' = scores
           /\ neutron_clustering' = neutron_clustering]_vars

\* The operations C30 is about.
LabelOps == {"cluster", "calc_scores", "scan_eps_values"}

\* C30: no step of cluster, calc_scores or scan_eps_values, returning or
\* raising, changes num_captures, num_complete_captures or capture_ratio,
\* so that a constructed session holds at all times the counts of its
\* events' truth groups and their ratio.  Under SpecOps.
C30_CaptureSummaryKept ==
    [][/\ call'.op \in LabelOps => capture' = capture
       /\ pc' = "ready" =>
              /\ Len(num_captures') = num_events
              /\ Len(num_complete_captures') = num_events
              /\ \A ii \in 1..num_events :
                     num_captures'[ii]
                         = Cardinality(Range(edep_neutron_ids[ii]))
              /\ Len(capture_ratio') = 1]_vars

\* A scan of the session itself went through on two events, and the session
\* holds the counts and the ratio of its events.
C30_Witness ==
    /\ call.op = "scan_eps_values"
    /\ scan.pc = "done"
    /\ neutron_clustering.binding = "self"
    /\ Len(cluster_scores["homogeneity"]) = 2
    /\ num_captures = <<2, 2>>
    /\ Len(num_complete_captures) = 2
    /\ capture_ratio # <<>>

====
